---- MODULE Spec2Model ----
(***************************************************************************)
(* Model of the deposit interest calculator: the calculation engine       *)
(* (lib/interest-calculator.ts) and the calculator form that calls it.    *)
(*                                                                         *)
(* Representation.                                                         *)
(*  - A date string "YYYY-MM-DD" is the record [y, m, d]; a JavaScript     *)
(*    Date is an instant, counted in hours since 1970-01-01T00:00Z.        *)
(*    new Date("YYYY-MM-DD") is UTC midnight of the day,                   *)
(*    new Date(y, m, d) and getFullYear/getMonth/setDate/setMonth work on  *)
(*    the local calendar, toISOString on the UTC calendar; tz is the       *)
(*    host's time zone: its offset from UTC in hours and whether it keeps  *)
(*    daylight-saving time.                                                *)
(*  - A text field (amount, tier bound, rate) is a record [kind, val]:     *)
(*    kind "empty" is the empty string, kind "num" a decimal literal of    *)
(*    value val, kind "junk" a non-numeric string, kind "grouped" the      *)
(*    literal of value val written with thousands separators.              *)
(*  - A Decimal amount is an integer number of hundredths (1,000,000.00 is *)
(*    100000000) and a rate an integer number of hundredths of a percent   *)
(*    (2.00 is 200).  plus, minus and times by a rate are exact; a         *)
(*    division is rounded half up to the hundredth (decimal.js rounds half *)
(*    up at 50 significant digits; the model rounds at the hundredth).     *)
(*    Products are taken in parts so that every intermediate value stays   *)
(*    within 32 bits.                                                      *)
(***************************************************************************)
EXTENDS Integers, Sequences, FiniteSets, TLC

VARIABLES
  tz,             \* environment: the host's time zone
  args,           \* arguments of the calculateInterest call under examination
  res,            \* what the call returned (NoResult before the call)
  fnArgs,         \* arguments of a direct call of a helper function
  alloc,          \* what splitAmountByTiers returned
  simple,         \* what calculateSimpleInterest returned
  compound,       \* what calculateCompoundInterest returned
  counted,        \* what calculateDays returned
  loop,           \* the loops of a calculateInterest call run step by step
  form,           \* InterestCalculator state: depositAmount, startDate, endDate,
                  \* tiers, interestType and interestApply
  result,         \* InterestCalculator state (NoResult is null)
  errors,         \* InterestCalculator state: the keys of the errors record
  activeTab,      \* InterestCalculator state
  keyHandler,     \* the render captured by the memoized handleKeyDown
  scenarios,      \* ComparisonMode state (<<>> while it is not mounted)
  invoked,        \* arguments of the calculateInterest calls of the latest step
  storage,        \* localStorage: the item 'interest-calculator-history'
  history,        \* useCalculationHistory state held by InterestCalculator
  panel,          \* useCalculationHistory state held by CalculationHistory
  presets,        \* the presets of the PresetManager, as saved in localStorage
  events          \* number of user events handled so far

engineVars == <<args, res, fnArgs, alloc, simple, compound, counted, loop>>

pageVars ==
  <<form, result, errors, activeTab, keyHandler, scenarios, invoked, events>>

historyVars == <<storage, history, panel>>

uiVars == <<pageVars, historyVars, presets>>

vars == <<tz, engineVars, uiVars>>

----------------------------------------------------------------------------
(* Bounds of the model *)

DepositUnit == 50000000
MaxDepositSteps == 4
MaxTiers == 3
MaxEvents == 4
MaxAdded == 22
MaxPresets == 1

----------------------------------------------------------------------------
(* Program constants *)

DaysPerYear == 365
Percent == 100

----------------------------------------------------------------------------
(* JavaScript Date *)

HoursPerDay == 6 * 4

isLeapYear(year) ==
  (year % 4 = 0 /\ year % 100 # 0) \/ (year % 400 = 0)

getDaysInYear(year) == IF isLeapYear(year) THEN 366 ELSE DaysPerYear

\* day number of the civil date y-m-d (proleptic Gregorian calendar)
DayNum(y, m, d) ==
  LET yy  == IF m <= 2 THEN y - 1 ELSE y
      era == yy \div 400
      yoe == yy - era * 400
      mp  == IF m > 2 THEN m - 3 ELSE m + 9
      doy == (153 * mp + 2) \div 5 + d - 1
      doe == yoe * 365 + yoe \div 4 - yoe \div 100 + doy
  IN  era * 146097 + doe - 719468

\* civil date [y, m, d] of a day number
Civil(n) ==
  LET z   == n + 719468
      era == z \div 146097
      doe == z - era * 146097
      yoe == (doe - doe \div 1460 + doe \div 36524 - doe \div 146096) \div 365
      doy == doe - (365 * yoe + yoe \div 4 - yoe \div 100)
      mp  == (5 * doy + 2) \div 153
      d   == doy - (153 * mp + 2) \div 5 + 1
      m   == IF mp < 10 THEN mp + 3 ELSE mp - 9
      y   == yoe + era * 400 + (IF m <= 2 THEN 1 ELSE 0)
  IN  [y |-> y, m |-> m, d |-> d]

\* new Date("YYYY-MM-DD"): UTC midnight of the day
ParseDate(dateStr) == DayNum(dateStr.y, dateStr.m, dateStr.d) * HoursPerDay

\* date.toISOString().split('T')[0]: the UTC calendar day of the instant
ToISODate(t) == Civil(t \div HoursPerDay)

\* The host's time zone: a standard offset from UTC in hours and whether it
\* keeps daylight-saving time (United States rule: from 02:00 standard time
\* on the second Sunday of March to 02:00 daylight time on the first Sunday
\* of November the clock is one hour ahead).
Zone(offset, dst) == [offset |-> offset, dst |-> dst]

\* day of the week of a day number, 0 = Sunday (1970-01-01 was a Thursday)
getDay(n) == (n + 4) % 7
FirstSundayFrom(n) == n + ((7 - getDay(n)) % 7)
DstStart(year, zone) ==
  (FirstSundayFrom(DayNum(year, 3, 1)) + 7) * HoursPerDay + 2 - zone.offset
DstEnd(year, zone) ==
  FirstSundayFrom(DayNum(year, 11, 1)) * HoursPerDay + 2 - (zone.offset + 1)

\* hours the local clock is ahead of UTC at the instant t; the calendar year
\* of t is the number of 365-day years since 1970 or the year before it
UtcOffset(t, zone) ==
  IF /\ zone.dst
     /\ \E back \in {0, 1} :
          LET year == 1970 + (t \div (HoursPerDay * 365)) - back
          IN  DstStart(year, zone) <= t /\ t < DstEnd(year, zone)
  THEN zone.offset + 1
  ELSE zone.offset

\* the local wall-clock reading of an instant, and the instant of a reading
\* (the readings the program builds, midnight and the reading of a UTC
\* midnight, fall in no skipped or repeated hour)
LocalTime(t, zone) == t + UtcOffset(t, zone)
FromLocalTime(local, zone) == local - UtcOffset(local - zone.offset, zone)

\* the local calendar day of the instant, and its fields
LocalDay(t, zone) == LocalTime(t, zone) \div HoursPerDay
getFullYear(t, zone) == Civil(LocalDay(t, zone)).y
getMonth(t, zone) == Civil(LocalDay(t, zone)).m - 1

\* new Date(year, monthIndex, day): local midnight; monthIndex may be 12 and
\* day may be 0, which JavaScript normalises into the neighbouring month
NewLocalDate(year, monthIndex, day, zone) ==
  LET y == year + (monthIndex \div 12)
      m == (monthIndex % 12) + 1
  IN  FromLocalTime((DayNum(y, m, 1) + day - 1) * HoursPerDay, zone)

----------------------------------------------------------------------------
(* Text fields and decimal.js *)

Txt(n) == [kind |-> "num", val |-> n]
Blank == [kind |-> "empty", val |-> 0]
Junk == [kind |-> "junk", val |-> 0]
Grouped(n) == [kind |-> "grouped", val |-> n]

\* JavaScript truthiness of a string: every string but the empty one
Truthy(text) == text.kind # "empty"

\* new Decimal(text) throws on anything that is not a decimal literal
DecimalThrows(text) == text.kind # "num"
Decimal(text) == text.val

MinOf(a, b) == IF a <= b THEN a ELSE b

\* n / d rounded half up to the unit (n >= 0, d > 0)
RoundHalfUp(n, d) == (2 * n + d) \div (2 * d)

----------------------------------------------------------------------------
(* calculateDays: the loop visits the instants start, start + 1 day, ...    *)
(* that are <= end and counts them.  setDate(getDate() + 1) advances the    *)
(* local calendar day and keeps the local time of day, so the k-th instant  *)
(* visited is the one whose local reading is the start's plus k days; that  *)
(* is 24 k hours after the start, give or take the hour of a daylight-      *)
(* saving change in between.  CountDays is the number of iterations.        *)

CountDays(currentDate, end, zone) ==
  LET local == LocalTime(currentDate, zone)
      Visited(k) == FromLocalTime(local + k * HoursPerDay, zone)
      n == (end - currentDate) \div HoursPerDay
  IN  IF currentDate > end THEN 0
      ELSE IF Visited(n + 1) <= end THEN n + 2
      ELSE IF Visited(n) <= end THEN n + 1
      ELSE n

calculateDays(startDate, endDate, zone) ==
  CountDays(ParseDate(startDate), ParseDate(endDate), zone)

----------------------------------------------------------------------------
(* splitAmountByTiers *)

\* [...tiers].sort((a, b) => parseFloat(a.min) - parseFloat(b.min)):
\* a stable sort by min, here by insertion
RECURSIVE InsertTier(_, _)
InsertTier(tier, sorted) ==
  IF sorted = <<>> THEN <<tier>>
  ELSE IF Head(sorted).min.val <= tier.min.val
       THEN <<Head(sorted)>> \o InsertTier(tier, Tail(sorted))
       ELSE <<tier>> \o sorted

\* SortTiers without the sort: the tiers in the order given
SortTiers_InputOrder(tiers) == tiers

RECURSIVE SortTiers(_)
SortTiers(tiers) ==
  IF tiers = <<>> THEN <<>>
  ELSE InsertTier(tiers[Len(tiers)], SortTiers(SubSeq(tiers, 1, Len(tiers) - 1)))

\* SortedCopy with the caller's array sorted in place: tiers.sort(...)
SortedCopy_InPlace(tiers) ==
  [tiers |-> SortTiers(tiers), sortedTiers |-> SortTiers(tiers)]

\* const sortedTiers = [...tiers].sort(...): the spread makes a new array of
\* the same tier objects and sort reorders that array; tiers is the caller's
\* array as the statement leaves it
SortedCopy(tiers) ==
  [tiers |-> tiers, sortedTiers |-> SortTiers(tiers)]

\* TierAmount with the capacity of a band taken as its width
TierAmount_BandWidth(totalAmount, processedAmount, tier) ==
  IF Truthy(tier.max)
  THEN MinOf(Decimal(tier.max) - Decimal(tier.min), totalAmount - processedAmount)
  ELSE IF totalAmount >= Decimal(tier.min)
       THEN totalAmount - processedAmount
       ELSE 0

\* the amount one tier receives, given what the earlier tiers received
TierAmount(totalAmount, processedAmount, tier) ==
  IF Truthy(tier.max)
  THEN MinOf(Decimal(tier.max) - processedAmount, totalAmount - processedAmount)
  ELSE IF totalAmount >= Decimal(tier.min)
       THEN totalAmount - processedAmount
       ELSE 0

\* one iteration of the loop over the sorted tiers; acc.done is the break
SplitStep(acc, tier, totalAmount) ==
  IF acc.done \/ acc.threw THEN acc
  ELSE IF DecimalThrows(tier.min) \/ (Truthy(tier.max) /\ DecimalThrows(tier.max))
       THEN [acc EXCEPT !.threw = TRUE]
  ELSE IF acc.processedAmount >= totalAmount
       THEN [acc EXCEPT !.done = TRUE]
  ELSE IF totalAmount < Decimal(tier.min)
       THEN acc
  ELSE LET tierAmount == TierAmount(totalAmount, acc.processedAmount, tier)
       IN  IF tierAmount > 0
           THEN [acc EXCEPT
                   !.result = Append(@, [min |-> tier.min, max |-> tier.max,
                                         rate |-> tier.rate, amount |-> tierAmount,
                                         interest |-> 0]),
                   !.processedAmount = @ + tierAmount]
           ELSE acc

RECURSIVE SplitLoop(_, _, _)
SplitLoop(acc, sortedTiers, totalAmount) ==
  IF sortedTiers = <<>> THEN acc
  ELSE SplitLoop(SplitStep(acc, Head(sortedTiers), totalAmount),
                 Tail(sortedTiers), totalAmount)

\* the caller's array after a call of splitAmountByTiers: new Decimal(amount)
\* throws before the sort is reached; the loop reads the tiers and pushes new
\* objects to result
TiersAfterSplit(amount, tiers) ==
  IF DecimalThrows(amount) THEN tiers ELSE SortedCopy(tiers).tiers

\* returns [threw, result]: threw when a new Decimal(...) raised an error
splitAmountByTiers(amount, tiers) ==
  IF DecimalThrows(amount)
  THEN [threw |-> TRUE, result |-> <<>>]
  ELSE LET acc == SplitLoop([result |-> <<>>, processedAmount |-> 0,
                             done |-> FALSE, threw |-> FALSE],
                            SortedCopy(tiers).sortedTiers, Decimal(amount))
       IN  [threw |-> acc.threw, result |-> acc.result]

----------------------------------------------------------------------------
(* Period interest *)

\* a rate text counts hundredths of a percent
Hundredths == 10 * 10
RateScale == Hundredths * Percent

\* P * (rate / 100), exactly: whole hundredths and a remainder in 1 / RateScale
TimesRate(principal, rate) ==
  LET low == (principal % RateScale) * rate
  IN  [whole |-> (principal \div RateScale) * rate + low \div RateScale,
       part  |-> low % RateScale]

\* calculateSimpleInterest on a 360-day year
calculateSimpleInterest_360(principal, rate, days) ==
  LET pr == TimesRate(principal, Decimal(rate))
      n  == pr.whole * days
  IN  n \div 360 + RoundHalfUp((n % 360) * RateScale + pr.part * days, 360 * RateScale)

\* P * (rate / 100) * (days / 365)
calculateSimpleInterest(principal, rate, days) ==
  LET pr == TimesRate(principal, Decimal(rate))
      n  == pr.whole * days
  IN  n \div DaysPerYear
        + RoundHalfUp((n % DaysPerYear) * RateScale + pr.part * days,
                      DaysPerYear * RateScale)

\* Decimal.pow(1 + R, years) - 1 as a fixed-point number with unit
\* 1 / PowScale.  decimal.js returns the base itself when the base is 1 or
\* the exponent is 1 and otherwise evaluates exp(y * ln(x)) by series; the
\* call with exponent 1 is made exact in PowerInterest, the others use the
\* series below.
PowScale == 1000 * 1000

LnOnePlus(r) ==
  r - RoundHalfUp(r * r, 2 * PowScale)
    + RoundHalfUp(RoundHalfUp(r * r, PowScale) * r, 3 * PowScale)

ExpMinusOne(z) ==
  z + RoundHalfUp(z * z, 2 * PowScale)
    + RoundHalfUp(RoundHalfUp(z * z, PowScale) * z, 6 * PowScale)

PowMinusOne(rate, days) ==
  IF Decimal(rate) = 0 THEN 0
  ELSE ExpMinusOne(RoundHalfUp(
         LnOnePlus((Decimal(rate) * PowScale) \div RateScale) * days, DaysPerYear))

\* principal * x / PowScale, the product taken in parts
TimesScaled(principal, x) ==
  LET a == principal \div PowScale
      b == (principal % PowScale) \div 1000
      c == principal % 1000
  IN  a * x + RoundHalfUp(b * x + (c * x) \div 1000, 1000)

\* P * (1 + R) ^ years - P
PowerInterest(principal, rate, days) ==
  IF days = DaysPerYear
  THEN LET pr == TimesRate(principal, Decimal(rate))
       IN  (principal + pr.whole + RoundHalfUp(pr.part, RateScale)) - principal
  ELSE TimesScaled(principal, PowMinusOne(rate, days))

calculateCompoundInterest(principal, rate, days) ==
  PowerInterest(principal, rate, days)

TierInterest(interestType, principal, rate, days) ==
  IF interestType = "simple"
  THEN calculateSimpleInterest(principal, rate, days)
  ELSE calculateCompoundInterest(principal, rate, days)

----------------------------------------------------------------------------
(* calculateInterest *)

\* one iteration of the loop that generates monthlyData
MonthInfo(tempDate, end, zone) ==
  LET monthStart == tempDate
      monthEnd   == NewLocalDate(getFullYear(monthStart, zone),
                                 getMonth(monthStart, zone) + 1, 0, zone)
      actualEnd  == IF monthEnd > end THEN end ELSE monthEnd
  IN  [monthStart   |-> monthStart,
       monthEnd     |-> actualEnd,
       displayMonth |-> [y |-> getFullYear(monthStart, zone),
                         m |-> getMonth(monthStart, zone) + 1]]

\* tempDate.setMonth(tempDate.getMonth() + 1)
NextMonth(tempDate, zone) ==
  NewLocalDate(getFullYear(tempDate, zone), getMonth(tempDate, zone) + 1, 1, zone)

RECURSIVE GenerateMonths(_, _, _)
GenerateMonths(tempDate, end, zone) ==
  IF tempDate <= end
  THEN <<MonthInfo(tempDate, end, zone)>>
         \o GenerateMonths(NextMonth(tempDate, zone), end, zone)
  ELSE <<>>

monthlyData(startDate, endDate, zone) ==
  LET start == ParseDate(startDate)
  IN  GenerateMonths(NewLocalDate(getFullYear(start, zone), getMonth(start, zone), 1, zone),
                     ParseDate(endDate), zone)

\* the interest of one period over a tier split; a tier whose rate is not a
\* decimal literal makes new Decimal(rate) throw
RateThrows(tierSplit) ==
  \E i \in 1..Len(tierSplit) : DecimalThrows(tierSplit[i].rate)

RECURSIVE SumInterest(_, _, _)
SumInterest(tierSplit, interestType, days) ==
  IF tierSplit = <<>> THEN 0
  ELSE TierInterest(interestType, Head(tierSplit).amount, Head(tierSplit).rate, days)
         + SumInterest(Tail(tierSplit), interestType, days)

\* shouldApply with the monthly rule testing the month's own last day
shouldApply_MonthEnd(applyType, monthEnd, end, zone) ==
  CASE applyType = "daily"      -> TRUE
    [] applyType = "monthly"    ->
         NewLocalDate(getFullYear(monthEnd, zone), getMonth(monthEnd, zone) + 1, 0, zone) <= end
    [] applyType = "biannually" ->
         getMonth(monthEnd, zone) = 5 \/ getMonth(monthEnd, zone) = 11
    [] applyType = "annually"   -> getMonth(monthEnd, zone) = 11
    [] OTHER                    -> FALSE

\* shouldApply with the months of the biannual rule counted from 1
shouldApply_OneBased(applyType, monthEnd, end, zone) ==
  CASE applyType = "daily"      -> TRUE
    [] applyType = "monthly"    ->
         NewLocalDate(getFullYear(monthEnd, zone), getMonth(monthEnd, zone) + 1, 1, zone) <= end
    [] applyType = "biannually" ->
         getMonth(monthEnd, zone) = 6 \/ getMonth(monthEnd, zone) = 12
    [] applyType = "annually"   -> getMonth(monthEnd, zone) = 11
    [] OTHER                    -> FALSE

\* shouldApply with the daily cadence treated as the monthly one
shouldApply_DailyAsMonthly(applyType, monthEnd, end, zone) ==
  CASE applyType \in {"daily", "monthly"} ->
         NewLocalDate(getFullYear(monthEnd, zone), getMonth(monthEnd, zone) + 1, 1, zone) <= end
    [] applyType = "biannually" ->
         getMonth(monthEnd, zone) = 5 \/ getMonth(monthEnd, zone) = 11
    [] applyType = "annually"   -> getMonth(monthEnd, zone) = 11
    [] OTHER                    -> FALSE

shouldApply(applyType, monthEnd, end, zone) ==
  CASE applyType = "daily"      -> TRUE
    [] applyType = "monthly"    ->
         NewLocalDate(getFullYear(monthEnd, zone), getMonth(monthEnd, zone) + 1, 1, zone) <= end
    [] applyType = "biannually" ->
         getMonth(monthEnd, zone) = 5 \/ getMonth(monthEnd, zone) = 11
    [] applyType = "annually"   -> getMonth(monthEnd, zone) = 11
    [] OTHER                    -> FALSE

\* ProcessMonth with the balance raised by the period interest alone when
\* the interest is applied
ProcessMonth_InterestOnly(st, monthInfo, a, zone) ==
  LET daysInMonth == calculateDays(ToISODate(monthInfo.monthStart),
                                   ToISODate(monthInfo.monthEnd), zone)
      tierSplit   == splitAmountByTiers(Txt(st.currentBalance), a.tiers)
  IN  IF st.threw THEN st
      ELSE IF tierSplit.threw \/ RateThrows(tierSplit.result)
           THEN [st EXCEPT !.threw = TRUE]
      ELSE
        LET monthInterest == SumInterest(tierSplit.result, a.interestType, daysInMonth)
            apply == shouldApply(a.applyType, monthInfo.monthEnd,
                                 ParseDate(a.endDate), zone)
            totalApplyInterest == st.accruedInterest + monthInterest
        IN  IF apply
            THEN [st EXCEPT
                    !.cumulativeInterest = @ + totalApplyInterest,
                    !.currentBalance = @ + monthInterest,
                    !.accruedInterest = 0,
                    !.breakdown = Append(@,
                       [date       |-> monthInfo.displayMonth,
                        days       |-> daysInMonth,
                        balance    |-> st.currentBalance + monthInterest,
                        interest   |-> monthInterest,
                        cumulative |-> st.cumulativeInterest + totalApplyInterest,
                        accrued    |-> 0,
                        applied    |-> TRUE])]
            ELSE [st EXCEPT
                    !.accruedInterest = @ + monthInterest,
                    !.breakdown = Append(@,
                       [date       |-> monthInfo.displayMonth,
                        days       |-> daysInMonth,
                        balance    |-> st.currentBalance,
                        interest   |-> monthInterest,
                        cumulative |-> st.cumulativeInterest
                                         + (st.accruedInterest + monthInterest),
                        accrued    |-> st.accruedInterest + monthInterest,
                        applied    |-> FALSE])]

\* ProcessMonth with the cumulative of a non-applied entry taken as the
\* applied interest alone
ProcessMonth_AppliedCumulative(st, monthInfo, a, zone) ==
  LET daysInMonth == calculateDays(ToISODate(monthInfo.monthStart),
                                   ToISODate(monthInfo.monthEnd), zone)
      tierSplit   == splitAmountByTiers(Txt(st.currentBalance), a.tiers)
  IN  IF st.threw THEN st
      ELSE IF tierSplit.threw \/ RateThrows(tierSplit.result)
           THEN [st EXCEPT !.threw = TRUE]
      ELSE
        LET monthInterest == SumInterest(tierSplit.result, a.interestType, daysInMonth)
            apply == shouldApply(a.applyType, monthInfo.monthEnd,
                                 ParseDate(a.endDate), zone)
            totalApplyInterest == st.accruedInterest + monthInterest
        IN  IF apply
            THEN [st EXCEPT
                    !.cumulativeInterest = @ + totalApplyInterest,
                    !.currentBalance = @ + totalApplyInterest,
                    !.accruedInterest = 0,
                    !.breakdown = Append(@,
                       [date       |-> monthInfo.displayMonth,
                        days       |-> daysInMonth,
                        balance    |-> st.currentBalance + totalApplyInterest,
                        interest   |-> monthInterest,
                        cumulative |-> st.cumulativeInterest + totalApplyInterest,
                        accrued    |-> 0,
                        applied    |-> TRUE])]
            ELSE [st EXCEPT
                    !.accruedInterest = @ + monthInterest,
                    !.breakdown = Append(@,
                       [date       |-> monthInfo.displayMonth,
                        days       |-> daysInMonth,
                        balance    |-> st.currentBalance,
                        interest   |-> monthInterest,
                        cumulative |-> st.cumulativeInterest,
                        accrued    |-> st.accruedInterest + monthInterest,
                        applied    |-> FALSE])]

\* the body of the loop over monthlyData; st holds the local variables
\* currentBalance, cumulativeInterest, accruedInterest and breakdown
ProcessMonth(st, monthInfo, a, zone) ==
  LET daysInMonth == calculateDays(ToISODate(monthInfo.monthStart),
                                   ToISODate(monthInfo.monthEnd), zone)
      tierSplit   == splitAmountByTiers(Txt(st.currentBalance), a.tiers)
  IN  IF st.threw THEN st
      ELSE IF tierSplit.threw \/ RateThrows(tierSplit.result)
           THEN [st EXCEPT !.threw = TRUE]
      ELSE
        LET monthInterest == SumInterest(tierSplit.result, a.interestType, daysInMonth)
            apply == shouldApply(a.applyType, monthInfo.monthEnd,
                                 ParseDate(a.endDate), zone)
            totalApplyInterest == st.accruedInterest + monthInterest
        IN  IF apply
            THEN [st EXCEPT
                    !.cumulativeInterest = @ + totalApplyInterest,
                    !.currentBalance = @ + totalApplyInterest,
                    !.accruedInterest = 0,
                    !.breakdown = Append(@,
                       [date       |-> monthInfo.displayMonth,
                        days       |-> daysInMonth,
                        balance    |-> st.currentBalance + totalApplyInterest,
                        interest   |-> monthInterest,
                        cumulative |-> st.cumulativeInterest + totalApplyInterest,
                        accrued    |-> 0,
                        applied    |-> TRUE])]
            ELSE [st EXCEPT
                    !.accruedInterest = @ + monthInterest,
                    !.breakdown = Append(@,
                       [date       |-> monthInfo.displayMonth,
                        days       |-> daysInMonth,
                        balance    |-> st.currentBalance,
                        interest   |-> monthInterest,
                        cumulative |-> st.cumulativeInterest
                                         + (st.accruedInterest + monthInterest),
                        accrued    |-> st.accruedInterest + monthInterest,
                        applied    |-> FALSE])]

RECURSIVE ProcessMonths(_, _, _, _)
ProcessMonths(st, months, a, zone) ==
  IF months = <<>> THEN st
  ELSE ProcessMonths(ProcessMonth(st, Head(months), a, zone), Tail(months), a, zone)

\* tierResults: each allocation of the deposit with its interest over totalDays
RECURSIVE TierResults(_, _, _)
TierResults(tierSplit, interestType, totalDays) ==
  IF tierSplit = <<>> THEN <<>>
  ELSE <<[Head(tierSplit) EXCEPT
            !.interest = TierInterest(interestType, Head(tierSplit).amount,
                                      Head(tierSplit).rate, totalDays)]>>
         \o TierResults(Tail(tierSplit), interestType, totalDays)

NoResult ==
  [status |-> "none", totalInterest |-> 0, finalAmount |-> 0, accruedInterest |-> 0,
   breakdown |-> <<>>, tierResults |-> <<>>, totalDays |-> 0]

Threw == [NoResult EXCEPT !.status = "threw"]

\* FinalResult with the final amount taken as the running balance alone
FinalResult_BalanceOnly(st, tierResults, totalDays) ==
  [status          |-> "returned",
   totalInterest   |-> st.cumulativeInterest + st.accruedInterest,
   finalAmount     |-> st.currentBalance,
   accruedInterest |-> st.accruedInterest,
   breakdown       |-> st.breakdown,
   tierResults     |-> tierResults,
   totalDays       |-> totalDays]

\* the returned CalculationResult
FinalResult(st, tierResults, totalDays) ==
  [status          |-> "returned",
   totalInterest   |-> st.cumulativeInterest + st.accruedInterest,
   finalAmount     |-> st.currentBalance + st.accruedInterest,
   accruedInterest |-> st.accruedInterest,
   breakdown       |-> st.breakdown,
   tierResults     |-> tierResults,
   totalDays       |-> totalDays]

\* calculateInterest with the tier results taken from the final balance
calculateInterest_SplitsFinalBalance(a, zone) ==
  IF DecimalThrows(a.depositAmount) THEN Threw
  ELSE
    LET totalDays == calculateDays(a.startDate, a.endDate, zone)
        st == ProcessMonths([currentBalance |-> Decimal(a.depositAmount),
                             cumulativeInterest |-> 0,
                             accruedInterest |-> 0,
                             breakdown |-> <<>>,
                             threw |-> FALSE],
                            monthlyData(a.startDate, a.endDate, zone), a, zone)
        tierSplit == splitAmountByTiers(Txt(st.currentBalance), a.tiers)
    IN  IF st.threw \/ tierSplit.threw \/ RateThrows(tierSplit.result) THEN Threw
        ELSE FinalResult(st, TierResults(tierSplit.result, a.interestType, totalDays),
                         totalDays)

calculateInterest(a, zone) ==
  IF DecimalThrows(a.depositAmount) THEN Threw
  ELSE
    LET totalDays == calculateDays(a.startDate, a.endDate, zone)
        st == ProcessMonths([currentBalance |-> Decimal(a.depositAmount),
                             cumulativeInterest |-> 0,
                             accruedInterest |-> 0,
                             breakdown |-> <<>>,
                             threw |-> FALSE],
                            monthlyData(a.startDate, a.endDate, zone), a, zone)
        tierSplit == splitAmountByTiers(a.depositAmount, a.tiers)
    IN  IF st.threw \/ tierSplit.threw \/ RateThrows(tierSplit.result) THEN Threw
        ELSE FinalResult(st, TierResults(tierSplit.result, a.interestType, totalDays),
                         totalDays)

----------------------------------------------------------------------------
(* Inputs *)

\* UTC-5 all year (Bogota), UTC, UTC+7 all year (Bangkok), and UTC-5 with
\* daylight-saving time (New York)
TimeZones == {Zone(0 - 5, FALSE), Zone(0, FALSE), Zone(7, FALSE), Zone(0 - 5, TRUE)}

Tier(min, max, rate) == [min |-> min, max |-> max, rate |-> rate]

Date(y, m, d) == [y |-> y, m |-> m, d |-> d]
NoDate == Date(0, 0, 0)

StartDates ==
  {Date(2024, 1, 1), Date(2024, 1, 15), Date(2024, 3, 1), Date(2024, 5, 31),
   Date(2024, 12, 1)}

EndDates ==
  {Date(2024, 1, 31), Date(2024, 2, 29), Date(2024, 3, 1), Date(2024, 6, 30),
   Date(2024, 7, 1), Date(2024, 12, 31), Date(2025, 1, 1), Date(2025, 1, 20)}

Deposits == {Txt(k * DepositUnit) : k \in 0..MaxDepositSteps}

\* one open band; two contiguous bands; the form's default tiers, given
\* unsorted
FlatTiers == <<Tier(Txt(0), Blank, Txt(200))>>
TwoTiers ==
  <<Tier(Txt(0), Txt(100000000), Txt(200)), Tier(Txt(100000001), Blank, Txt(50))>>
UnsortedDefaultTiers ==
  <<Tier(Txt(100000001), Txt(200000000), Txt(150)),
    Tier(Txt(100), Txt(100000000), Txt(200)),
    Tier(Txt(200000001), Blank, Txt(50))>>

\* a tier whose min was left empty; a first band whose rate was left empty
BlankMinTiers == <<Tier(Blank, Blank, Txt(200))>>
BlankRateTiers ==
  <<Tier(Txt(0), Txt(100000000), Blank), Tier(Txt(100000001), Blank, Txt(50))>>

EngineTiers ==
  {FlatTiers, TwoTiers, UnsortedDefaultTiers, BlankMinTiers, BlankRateTiers}

InterestTypes == {"simple", "compound"}
ApplyTypes == {"daily", "monthly", "biannually", "annually"}

EngineArgs ==
  {a \in [depositAmount : Deposits, startDate : StartDates, endDate : EndDates,
          tiers : EngineTiers, interestType : InterestTypes, applyType : ApplyTypes] :
     ParseDate(a.startDate) <= ParseDate(a.endDate)}

NoArgs ==
  [depositAmount |-> Blank, startDate |-> NoDate, endDate |-> NoDate, tiers |-> <<>>,
   interestType |-> "simple", applyType |-> "daily"]

\* direct calls of the helper functions
TierMins == {Txt(0), Txt(100000001), Txt(100000100), Txt(200000001)}
TierMaxs == {Blank, Txt(100000000), Txt(200000000)}
TierUniverse == {Tier(mn, mx, Txt(200)) : mn \in TierMins, mx \in TierMaxs}

\* tiers with a field left empty or not numeric.  The comparator of the sort
\* returns NaN for a min that is not numeric, and the order Array.prototype.sort
\* gives such a list is implementation-defined: a malformed tier is given
\* alone, where the order of the list does not depend on the comparator.
MalformedTiers ==
  {Tier(Blank, Blank, Txt(200)), Tier(Junk, Blank, Txt(200)),
   Tier(Txt(0), Blank, Blank), Tier(Txt(0), Blank, Junk)}

TierLists ==
  UNION {[1..n -> TierUniverse] : n \in 1..MaxTiers} \cup {<<t>> : t \in MalformedTiers}

Amounts ==
  {Txt(0 - 100), Txt(0), Txt(1), Txt(100000000), Txt(100000001), Txt(100000050), Txt(150000000),
   Txt(200000000), Txt(200000001), Txt(250000000)}

Principals == {1, 99, 100, 12345, 100000000, 250000000}
Rates == {Txt(0), Txt(50), Txt(150), Txt(200), Blank, Junk}
DayCounts == {0, 1, 31, 364, 365, 366}

SplitCalls == [fn : {"split"}, amount : Amounts, tiers : TierLists]
InterestCalls == [fn : {"interest"}, principal : Principals, rate : Rates, days : DayCounts]

\* days that bound whole months, February of a common and of a leap year,
\* and the months in which New York changes its clocks
CalendarDays ==
  {Date(2023, 2, 1), Date(2023, 2, 28), Date(2024, 1, 1), Date(2024, 1, 31),
   Date(2024, 2, 1), Date(2024, 2, 29), Date(2024, 3, 1), Date(2024, 3, 31),
   Date(2024, 10, 1), Date(2024, 11, 1), Date(2024, 11, 30), Date(2024, 12, 31)}
DaysCalls == [fn : {"days"}, startDate : CalendarDays, endDate : CalendarDays]

NoCall == [fn |-> "none"]
NoValue == [status |-> "none", value |-> 0]
NoAlloc == [status |-> "none", result |-> <<>>]
NoLoop ==
  [pc |-> "idle", start |-> 0, currentDate |-> 0, end |-> 0, totalDays |-> 0,
   tempDate |-> 0,
   monthlyData |-> <<>>, index |-> 0, daysInMonth |-> <<>>]

----------------------------------------------------------------------------
(* The calculator form: strings, defaults and validation *)

\* parseInputValue: value.replace(/,/g, '')
parseInputValue(value) == IF value.kind = "grouped" THEN Txt(value.val) ELSE value

\* formatNumber of a decimal literal: two decimals, the integer part grouped in
\* threes; a value below one thousand has no separator
GroupSize == 10 * 10 * 10
formatNumber(value) ==
  IF value.val >= GroupSize * Hundredths THEN Grouped(value.val) ELSE Txt(value.val)

\* parseFloat reads the longest numeric prefix: NaN for an empty or non-numeric
\* string, the digits before the first separator for a grouped literal
RECURSIVE LeadingGroup(_)
LeadingGroup(whole) ==
  IF whole < GroupSize THEN whole ELSE LeadingGroup(whole \div GroupSize)

parseFloat(text) ==
  [nan |-> text.kind \in {"empty", "junk"},
   val |-> IF text.kind = "grouped"
           THEN LeadingGroup(text.val \div Hundredths) * Hundredths
           ELSE text.val]

defaultTiers ==
  <<Tier(Txt(100), Txt(100000000), Txt(200)),
    Tier(Txt(100000001), Txt(200000000), Txt(150)),
    Tier(Txt(200000001), Blank, Txt(50))>>

\* the day on which the page is used, and the default range it gives:
\* today.toISOString() and the same day one year later
Today == Date(2024, 3, 1)
OneYearLater(today) == [today EXCEPT !.y = @ + 1]

\* the values of the form held by a render
Form(amount, start, end, tierList, type, apply) ==
  [depositAmount |-> amount, startDate |-> start, endDate |-> end, tiers |-> tierList,
   interestType |-> type, interestApply |-> apply]

\* the arguments handleCalculate passes to calculateInterest
FormArgs(f) ==
  [depositAmount |-> parseInputValue(f.depositAmount), startDate |-> f.startDate,
   endDate |-> f.endDate, tiers |-> f.tiers, interestType |-> f.interestType,
   applyType |-> f.interestApply]

\* !tier.min || !tier.rate || parseFloat(tier.rate) < 0
TierIncomplete(tier) ==
  \/ ~Truthy(tier.min)
  \/ ~Truthy(tier.rate)
  \/ (~parseFloat(tier.rate).nan /\ parseFloat(tier.rate).val < 0)

\* !amount || parseFloat(amount) <= 0 (a comparison with NaN is false)
AmountRejected(amount) ==
  \/ ~Truthy(amount)
  \/ (~parseFloat(amount).nan /\ parseFloat(amount).val <= 0)

\* validate: the keys of newErrors
validate(f) ==
  (IF AmountRejected(parseInputValue(f.depositAmount)) THEN {"depositAmount"} ELSE {})
  \cup (IF f.startDate = NoDate THEN {"startDate"} ELSE {})
  \cup (IF f.endDate = NoDate THEN {"endDate"}
        ELSE IF f.startDate # NoDate /\ ParseDate(f.endDate) <= ParseDate(f.startDate)
             THEN {"endDate"}
             ELSE {})
  \cup (IF Len(f.tiers) = 0 THEN {"tiers"}
        ELSE IF \E i \in 1..Len(f.tiers) : TierIncomplete(f.tiers[i]) THEN {"tiers"}
             ELSE {})

\* setResult(calcResult) is not reached when calculateInterest throws
ResultAfter(calcResult, held) ==
  IF calcResult.status = "threw" THEN held ELSE calcResult

\* the entry handleCalculate hands to addToHistory.  The id and the timestamp
\* that addToHistory adds are left out: they are unique to the entry, which
\* the model names by its place in the list.
HistoryEntry(f, calcResult) ==
  [depositAmount |-> parseInputValue(f.depositAmount), startDate |-> f.startDate,
   endDate |-> f.endDate, interestType |-> f.interestType,
   interestApply |-> f.interestApply, tiers |-> f.tiers, result |-> calcResult]

MAX_HISTORY_ITEMS == 20

\* addToHistory called by a render whose hook holds the list held: the list
\* it saves
addToHistory(held, entry) ==
  SubSeq(<<entry>> \o held, 1, MinOf(Len(held) + 1, MAX_HISTORY_ITEMS))

\* handleCalculate after validation passed: the part that follows the call
\* of calculateInterest, which is not reached when the call throws
Calculated(f, held, heldHistory, calcResult) ==
  /\ result' = ResultAfter(calcResult, held)
  /\ IF calcResult.status = "threw"
     THEN UNCHANGED <<storage, history>>
     ELSE /\ history' = addToHistory(heldHistory, HistoryEntry(f, calcResult))
          /\ storage' = history'

\* handleCalculate run by a render that holds the form f and the history
\* heldHistory, on a page that holds the result held: the errors it sets, the
\* calls of calculateInterest it makes, the result it leaves and the history
\* it saves
handleCalculate(f, held, zone, heldHistory) ==
  /\ errors' = validate(f)
  /\ IF errors' # {}
     THEN /\ invoked' = {}
          /\ result' = held
          /\ UNCHANGED <<storage, history>>
     ELSE /\ invoked' = {FormArgs(f)}
          /\ Calculated(f, held, heldHistory, calculateInterest(FormArgs(f), zone))

\* TierEditor.addTier: the tier appended after lastTier
NewTier(lastTier) ==
  Tier(IF Truthy(lastTier.max) THEN Txt(parseFloat(lastTier.max).val + 1)
       ELSE IF Truthy(lastTier.min)
            THEN Txt(parseFloat(lastTier.min).val + 1000000 * Hundredths)
            ELSE Txt(0),
       Blank, Txt(0))

RemoveAt(seq, index) == SubSeq(seq, 1, index - 1) \o SubSeq(seq, index + 1, Len(seq))

----------------------------------------------------------------------------
(* DailyBreakdownTable: the months it shows and their balances.  The daily  *)
(* entries of a month are computed from a copy of the balance and change no *)
(* balance of the table.                                                    *)

\* the table's own splitAmountByTiers: no allocation for an amount that is
\* not a number, and a tier without min or rate is skipped
TableSplit(amount, tiers) ==
  IF ~Truthy(amount) \/ parseFloat(amount).nan
  THEN [threw |-> FALSE, result |-> <<>>]
  ELSE splitAmountByTiers(amount,
         SelectSeq(tiers, LAMBDA tier : Truthy(tier.min) /\ Truthy(tier.rate)))

\* shouldApplyThisMonth, from the last day of the calendar month
shouldApplyThisMonth(applyType, monthEnd, end, zone) ==
  /\ NewLocalDate(getFullYear(monthEnd, zone), getMonth(monthEnd, zone) + 1, 1, zone) <= end
  /\ \/ applyType \in {"daily", "monthly"}
     \/ applyType = "biannually" /\ getMonth(monthEnd, zone) \in {5, 11}
     \/ applyType = "annually" /\ getMonth(monthEnd, zone) = 11

\* one iteration of while (tempDate <= end); st holds currentBalance and the
\* monthlyData pushed so far
TableMonth(st, tempDate, end, a, zone) ==
  LET month     == MonthInfo(tempDate, end, zone)
      monthEnd  == NewLocalDate(getFullYear(tempDate, zone),
                                getMonth(tempDate, zone) + 1, 0, zone)
      monthDays == calculateDays(ToISODate(month.monthStart),
                                 ToISODate(month.monthEnd), zone)
      monthTierSplit == TableSplit(Txt(st.currentBalance), a.tiers)
  IN  IF st.threw THEN st
      ELSE IF monthTierSplit.threw \/ RateThrows(monthTierSplit.result)
           THEN [st EXCEPT !.threw = TRUE]
      ELSE
        LET monthInterest == SumInterest(monthTierSplit.result, a.interestType, monthDays)
            apply == shouldApplyThisMonth(a.applyType, monthEnd, end, zone)
            endBalance == IF apply THEN st.currentBalance + monthInterest
                          ELSE st.currentBalance
        IN  [st EXCEPT
               !.currentBalance = endBalance,
               !.monthlyData = Append(@, [month        |-> month.displayMonth,
                                          startBalance |-> st.currentBalance,
                                          endBalance   |-> endBalance,
                                          applied      |-> apply])]

RECURSIVE TableMonths(_, _, _, _, _)
TableMonths(st, tempDate, end, a, zone) ==
  IF tempDate <= end
  THEN TableMonths(TableMonth(st, tempDate, end, a, zone),
                   NextMonth(tempDate, zone), end, a, zone)
  ELSE st

\* what the component computes from its props; shown is FALSE when it
\* returns null
DailyBreakdownTable(a, zone) ==
  IF \/ ~Truthy(a.depositAmount)
     \/ a.startDate = NoDate
     \/ a.endDate = NoDate
     \/ parseFloat(a.depositAmount).nan
     \/ parseFloat(a.depositAmount).val <= 0
  THEN [shown |-> FALSE, threw |-> FALSE, currentBalance |-> 0, monthlyData |-> <<>>]
  ELSE LET start == ParseDate(a.startDate)
       IN  TableMonths([shown |-> TRUE, threw |-> FALSE,
                        currentBalance |-> Decimal(a.depositAmount),
                        monthlyData |-> <<>>],
                       NewLocalDate(getFullYear(start, zone), getMonth(start, zone), 1, zone),
                       ParseDate(a.endDate), a, zone)

----------------------------------------------------------------------------
(* Comparison mode *)

MaxScenarios == 5

Scenario(amount, type, apply) ==
  [depositAmount |-> amount, interestType |-> type, interestApply |-> apply]

\* the scenarios ComparisonMode starts with when it is mounted
InitialScenarios(baseDepositAmount, baseInterestType, baseInterestApply) ==
  <<Scenario(IF Truthy(baseDepositAmount) THEN baseDepositAmount ELSE Txt(100000000),
             baseInterestType, baseInterestApply),
    Scenario(Txt(200000000), baseInterestType, baseInterestApply)>>

AddedScenario(baseInterestType, baseInterestApply) ==
  Scenario(Txt(150000000), baseInterestType, baseInterestApply)

ScenarioArgs(scenario, start, end, tierList) ==
  [depositAmount |-> parseInputValue(scenario.depositAmount), startDate |-> start,
   endDate |-> end, tiers |-> tierList, interestType |-> scenario.interestType,
   applyType |-> scenario.interestApply]

ScenarioCalculated(scenario) == ~AmountRejected(parseInputValue(scenario.depositAmount))

\* the results memo: one entry per scenario, calculated unless its amount is
\* rejected; nothing when a date is empty or there is no tier
results(scn, start, end, tierList, zone) ==
  IF start = NoDate \/ end = NoDate \/ Len(tierList) = 0 THEN <<>>
  ELSE [i \in 1..Len(scn) |->
          [scenario |-> scn[i],
           result |-> IF ScenarioCalculated(scn[i])
                      THEN calculateInterest(ScenarioArgs(scn[i], start, end, tierList),
                                             zone)
                      ELSE NoResult]]

\* the calls of calculateInterest made when the memo is computed
ComparisonCalls(scn, start, end, tierList) ==
  IF start = NoDate \/ end = NoDate \/ Len(tierList) = 0 THEN {}
  ELSE {ScenarioArgs(scn[i], start, end, tierList) :
          i \in {j \in 1..Len(scn) : ScenarioCalculated(scn[j])}}

\* the calls made by the render that follows a step: the memo is computed
\* when ComparisonMode is mounted and one of its dependencies was set
RenderCalls(tab, depsSet, scn, start, end, tierList) ==
  IF tab = "comparison" /\ depsSet THEN ComparisonCalls(scn, start, end, tierList)
  ELSE {}

----------------------------------------------------------------------------
(* The page after it is mounted: the first render holds empty dates, the    *)
(* mount effect then sets the default range; handleKeyDown is memoized on   *)
(* activeTab alone and keeps the handlers of the first render.              *)

FormInit ==
  /\ form = Form(Blank, Today, OneYearLater(Today), defaultTiers, "simple", "daily")
  /\ result = NoResult
  /\ errors = {}
  /\ activeTab = "calculator"
  /\ keyHandler = [activeTab |-> "calculator",
                   form |-> Form(Blank, NoDate, NoDate, defaultTiers, "simple", "daily"),
                   history |-> <<>>]
  /\ scenarios = <<>>
  /\ invoked = {}
  /\ events = 0
  /\ presets = <<>>

----------------------------------------------------------------------------
(* Both useCalculationHistory hooks load the stored list when they mount *)

HistoryInit(stored) ==
  /\ storage = stored
  /\ history = stored
  /\ panel = stored

----------------------------------------------------------------------------
(* The engine: one call of calculateInterest *)

Init ==
  /\ tz \in TimeZones
  /\ args \in EngineArgs
  /\ res = NoResult
  /\ fnArgs = NoCall
  /\ alloc = NoAlloc
  /\ simple = NoValue
  /\ compound = NoValue
  /\ counted = NoValue
  /\ loop = NoLoop
  /\ FormInit
  /\ HistoryInit(<<>>)

Calculate ==
  /\ res.status = "none"
  /\ args # NoArgs
  /\ res' = calculateInterest(args, tz)
  /\ args' = [args EXCEPT !.tiers = TiersAfterSplit(args.depositAmount, @)]
  /\ UNCHANGED <<tz, fnArgs, alloc, simple, compound, counted, loop>>
  /\ UNCHANGED uiVars

Next == Calculate

Spec == Init /\ [][Next]_vars

----------------------------------------------------------------------------
(* The helper functions called directly *)

FnInit ==
  /\ tz \in TimeZones
  /\ args = NoArgs
  /\ res = NoResult
  /\ fnArgs \in SplitCalls \cup InterestCalls \cup DaysCalls
  /\ alloc = NoAlloc
  /\ simple = NoValue
  /\ compound = NoValue
  /\ counted = NoValue
  /\ loop = NoLoop
  /\ FormInit
  /\ HistoryInit(<<>>)

Split ==
  /\ fnArgs.fn = "split"
  /\ alloc.status = "none"
  /\ alloc' = LET r == splitAmountByTiers(fnArgs.amount, fnArgs.tiers)
              IN  [status |-> IF r.threw THEN "threw" ELSE "returned",
                   result |-> r.result]
  /\ fnArgs' = [fnArgs EXCEPT !.tiers = TiersAfterSplit(fnArgs.amount, @)]
  /\ UNCHANGED <<tz, args, res, simple, compound, counted, loop>>
  /\ UNCHANGED uiVars

SimpleInterest ==
  /\ fnArgs.fn = "interest"
  /\ simple.status = "none"
  /\ simple' = IF DecimalThrows(fnArgs.rate)
               THEN [status |-> "threw", value |-> 0]
               ELSE [status |-> "returned",
                     value |-> calculateSimpleInterest(fnArgs.principal, fnArgs.rate,
                                                       fnArgs.days)]
  /\ UNCHANGED <<tz, args, res, fnArgs, alloc, compound, counted, loop>>
  /\ UNCHANGED uiVars

CompoundInterest ==
  /\ fnArgs.fn = "interest"
  /\ compound.status = "none"
  /\ compound' = IF DecimalThrows(fnArgs.rate)
                 THEN [status |-> "threw", value |-> 0]
                 ELSE [status |-> "returned",
                       value |-> calculateCompoundInterest(fnArgs.principal, fnArgs.rate,
                                                           fnArgs.days)]
  /\ UNCHANGED <<tz, args, res, fnArgs, alloc, simple, counted, loop>>
  /\ UNCHANGED uiVars

Days ==
  /\ fnArgs.fn = "days"
  /\ counted.status = "none"
  /\ counted' = [status |-> "returned",
                 value |-> calculateDays(fnArgs.startDate, fnArgs.endDate, tz)]
  /\ UNCHANGED <<tz, args, res, fnArgs, alloc, simple, compound, loop>>
  /\ UNCHANGED uiVars

FnNext == Split \/ SimpleInterest \/ CompoundInterest \/ Days

FnSpec == FnInit /\ [][FnNext]_vars

----------------------------------------------------------------------------
(* The loops of calculateInterest, one iteration per step: the while loop   *)
(* of calculateDays (for the whole range, then for each month), and the     *)
(* while loop that generates monthlyData.  loop.pc is the loop the call is  *)
(* in; loop.totalDays is the local counter of the running calculateDays.    *)

\* every pair of the dates of the engine's inputs, the reversed ones too
LoopArgs ==
  [depositAmount : {Txt(DepositUnit)}, startDate : StartDates, endDate : EndDates,
   tiers : {FlatTiers}, interestType : {"simple"}, applyType : {"monthly"}]

LoopInit ==
  /\ tz \in TimeZones
  /\ args \in LoopArgs
  /\ res = NoResult
  /\ fnArgs = NoCall
  /\ alloc = NoAlloc
  /\ simple = NoValue
  /\ compound = NoValue
  /\ counted = NoValue
  /\ loop = NoLoop
  /\ FormInit
  /\ HistoryInit(<<>>)

Stepped == UNCHANGED <<tz, args, res, fnArgs, alloc, simple, compound, counted, uiVars>>

\* calculateInterest is entered and calls calculateDays(startDate, endDate)
EnterCalculateDays ==
  /\ loop.pc = "idle"
  /\ loop' = [loop EXCEPT !.pc = "totalDays",
                          !.start = ParseDate(args.startDate),
                          !.currentDate = ParseDate(args.startDate),
                          !.end = ParseDate(args.endDate),
                          !.totalDays = 0]
  /\ Stepped

\* one iteration of while (currentDate <= end) in calculateDays
CountDay ==
  /\ loop.pc \in {"totalDays", "daysInMonth"}
  /\ loop.currentDate <= loop.end
  /\ loop' = [loop EXCEPT !.totalDays = @ + 1,
                          !.currentDate =
                             FromLocalTime(LocalTime(@, tz) + HoursPerDay, tz)]
  /\ Stepped

\* calculateDays(startDate, endDate) returns; tempDate is set to the first
\* day of the start's month
StartMonths ==
  /\ loop.pc = "totalDays"
  /\ loop.currentDate > loop.end
  /\ loop' = [loop EXCEPT !.pc = "monthlyData",
                          !.end = ParseDate(args.endDate),
                          !.tempDate =
                             NewLocalDate(getFullYear(ParseDate(args.startDate), tz),
                                          getMonth(ParseDate(args.startDate), tz), 1, tz)]
  /\ Stepped

\* one iteration of while (tempDate <= end)
PushMonth ==
  /\ loop.pc = "monthlyData"
  /\ loop.tempDate <= ParseDate(args.endDate)
  /\ loop' = [loop EXCEPT !.monthlyData =
                             Append(@, MonthInfo(loop.tempDate, ParseDate(args.endDate), tz)),
                          !.tempDate = NextMonth(@, tz)]
  /\ Stepped

\* the call of calculateDays for the monthInfo at a place of monthlyData, or
\* the end of the call when there is none left
ProcessFrom(place) ==
  IF place > Len(loop.monthlyData)
  THEN [loop EXCEPT !.pc = "done", !.index = place]
  ELSE [loop EXCEPT !.pc = "daysInMonth",
                    !.index = place,
                    !.start = ParseDate(ToISODate(loop.monthlyData[place].monthStart)),
                    !.currentDate =
                       ParseDate(ToISODate(loop.monthlyData[place].monthStart)),
                    !.end = ParseDate(ToISODate(loop.monthlyData[place].monthEnd)),
                    !.totalDays = 0]

\* the loop that generates monthlyData ends; the loop over monthlyData starts
StartProcessing ==
  /\ loop.pc = "monthlyData"
  /\ loop.tempDate > ParseDate(args.endDate)
  /\ loop' = ProcessFrom(1)
  /\ Stepped

\* calculateDays returns daysInMonth; the loop over monthlyData goes on
NextMonthInfo ==
  /\ loop.pc = "daysInMonth"
  /\ loop.currentDate > loop.end
  /\ loop' = [ProcessFrom(loop.index + 1) EXCEPT
                 !.daysInMonth = Append(@, loop.totalDays)]
  /\ Stepped

LoopNext ==
  \/ EnterCalculateDays
  \/ CountDay
  \/ StartMonths
  \/ PushMonth
  \/ StartProcessing
  \/ NextMonthInfo

\* The JavaScript engine runs a synchronous call without a pause: a loop
\* whose condition holds takes its next iteration, and a step that can be
\* taken is taken.  A step of LoopNext can be taken exactly until the call is
\* done, so the second conjunct is weak fairness of LoopNext with its
\* enabling condition written out.
LoopFairness ==
  /\ WF_vars(CountDay)
  /\ ([]<>(loop.pc = "done") \/ []<><<LoopNext>>_vars)

LoopSpec == LoopInit /\ [][LoopNext]_vars /\ LoopFairness

----------------------------------------------------------------------------
(* The calculator page: one action per user event.  Every action ends with  *)
(* the render that follows it, in which ComparisonMode, when mounted,       *)
(* computes its results again if a dependency of the memo was set.          *)

AmountInputs == {Blank, Junk, Txt(0), Txt(100000000), Grouped(100000000)}
DateInputs == {NoDate, Today, OneYearLater(Today)}
TierFields == {"min", "max", "rate"}
TierInputs == {Blank}
ScenarioAmountInputs == {Blank, Junk}
ApplyInputs == {"daily", "monthly"}
Tabs == {"calculator", "comparison"}

\* what an earlier visit may have left in localStorage: nothing, or the entry
\* of one calculation made on the same host
PriorForm ==
  Form(Grouped(100000000), Date(2024, 1, 15), Date(2024, 6, 30), TwoTiers,
       "compound", "monthly")
PriorEntry(zone) == HistoryEntry(PriorForm, calculateInterest(FormArgs(PriorForm), zone))
StoredHistories(zone) == {<<>>, <<PriorEntry(zone)>>}

UIInit ==
  /\ tz \in TimeZones
  /\ args = NoArgs
  /\ res = NoResult
  /\ fnArgs = NoCall
  /\ alloc = NoAlloc
  /\ simple = NoValue
  /\ compound = NoValue
  /\ counted = NoValue
  /\ loop = NoLoop
  /\ FormInit
  /\ \E stored \in StoredHistories(tz) : HistoryInit(stored)

Handled ==
  /\ events < MaxEvents
  /\ events' = events + 1
  /\ UNCHANGED <<tz, engineVars>>

\* the render that follows a step of the form
Rendered(depsSet) ==
  invoked' = RenderCalls(activeTab, depsSet, scenarios, form'.startDate, form'.endDate,
                         form'.tiers)

\* DepositForm.handleAmountChange
AmountChange ==
  \E value \in AmountInputs :
    /\ Handled
    /\ parseInputValue(value) # form.depositAmount
    /\ form' = [form EXCEPT !.depositAmount = parseInputValue(value)]
    /\ Rendered(FALSE)
    /\ UNCHANGED <<result, errors, activeTab, keyHandler, scenarios, historyVars, presets>>

\* DepositForm.handleAmountBlur
AmountBlur ==
  /\ Handled
  /\ LET cleanValue == parseInputValue(form.depositAmount)
     IN  form' = IF Truthy(cleanValue) /\ ~parseFloat(cleanValue).nan
                 THEN [form EXCEPT !.depositAmount = formatNumber(cleanValue)]
                 ELSE form
  /\ Rendered(FALSE)
  /\ UNCHANGED <<result, errors, activeTab, keyHandler, scenarios, historyVars, presets>>

\* DepositForm.handleDateChange('startDate', value)
StartDateChange ==
  \E value \in DateInputs :
    /\ Handled
    /\ value # form.startDate
    /\ form' = [form EXCEPT !.startDate = value]
    /\ Rendered(TRUE)
    /\ UNCHANGED <<result, errors, activeTab, keyHandler, scenarios, historyVars, presets>>

\* DepositForm.handleDateChange('endDate', value)
EndDateChange ==
  \E value \in DateInputs :
    /\ Handled
    /\ value # form.endDate
    /\ form' = [form EXCEPT !.endDate = value]
    /\ Rendered(TRUE)
    /\ UNCHANGED <<result, errors, activeTab, keyHandler, scenarios, historyVars, presets>>

SetInterestType ==
  \E value \in InterestTypes :
    /\ Handled
    /\ value # form.interestType
    /\ form' = [form EXCEPT !.interestType = value]
    /\ Rendered(FALSE)
    /\ UNCHANGED <<result, errors, activeTab, keyHandler, scenarios, historyVars, presets>>

SetInterestApply ==
  \E value \in ApplyInputs :
    /\ Handled
    /\ value # form.interestApply
    /\ form' = [form EXCEPT !.interestApply = value]
    /\ Rendered(FALSE)
    /\ UNCHANGED <<result, errors, activeTab, keyHandler, scenarios, historyVars, presets>>

\* TierEditor.updateTier(index, field, value)
updateTier ==
  \E index \in 1..Len(form.tiers), field \in TierFields, value \in TierInputs :
    /\ Handled
    /\ parseInputValue(value) # form.tiers[index][field]
    /\ form' = [form EXCEPT !.tiers[index][field] = parseInputValue(value)]
    /\ Rendered(TRUE)
    /\ UNCHANGED <<result, errors, activeTab, keyHandler, scenarios, historyVars, presets>>

\* TierEditor.addTier
addTier ==
  /\ Handled
  /\ Len(form.tiers) < MaxTiers
  /\ form' = [form EXCEPT !.tiers = Append(@, NewTier(@[Len(@)]))]
  /\ Rendered(TRUE)
  /\ UNCHANGED <<result, errors, activeTab, keyHandler, scenarios, historyVars, presets>>

\* removeTier without the test of tiers.length
removeTier_Unguarded ==
  \E index \in 1..Len(form.tiers) :
    /\ Handled
    /\ form' = [form EXCEPT !.tiers = RemoveAt(@, index)]
    /\ Rendered(TRUE)
    /\ UNCHANGED <<result, errors, activeTab, keyHandler, scenarios, historyVars, presets>>

\* TierEditor.removeTier(index)
removeTier ==
  \E index \in 1..Len(form.tiers) :
    /\ Handled
    /\ form' = IF Len(form.tiers) > 1
               THEN [form EXCEPT !.tiers = RemoveAt(@, index)]
               ELSE form
    /\ Rendered(Len(form.tiers) > 1)
    /\ UNCHANGED <<result, errors, activeTab, keyHandler, scenarios, historyVars, presets>>

\* Tabs.onValueChange: the other tab's content is mounted, and handleKeyDown
\* is made again from the render that shows it
SetActiveTab ==
  \E tab \in Tabs :
    /\ Handled
    /\ tab # activeTab
    /\ activeTab' = tab
    /\ keyHandler' = [activeTab |-> tab, form |-> form, history |-> history]
    /\ scenarios' = IF tab = "comparison"
                    THEN InitialScenarios(parseInputValue(form.depositAmount),
                                          form.interestType, form.interestApply)
                    ELSE <<>>
    /\ invoked' = RenderCalls(tab, TRUE, scenarios', form.startDate, form.endDate,
                              form.tiers)
    /\ UNCHANGED <<form, result, errors, historyVars, presets>>

\* the Calculate button of the calculator tab
ClickCalculate ==
  /\ Handled
  /\ activeTab = "calculator"
  /\ handleCalculate(form, result, tz, history)
  /\ UNCHANGED <<form, activeTab, keyHandler, scenarios, panel, presets>>

\* handleKeyDown on Ctrl+Enter or Cmd+Enter
PressCtrlEnter ==
  /\ Handled
  /\ IF keyHandler.activeTab = "calculator"
     THEN handleCalculate(keyHandler.form, result, tz, keyHandler.history)
     ELSE /\ invoked' = {}
          /\ UNCHANGED <<result, errors, storage, history>>
  /\ UNCHANGED <<form, activeTab, keyHandler, scenarios, panel, presets>>

handleReset ==
  /\ form' = Form(Blank, Today, OneYearLater(Today), defaultTiers, "simple", "daily")
  /\ result' = NoResult
  /\ errors' = {}
  /\ Rendered(TRUE)
  /\ UNCHANGED <<activeTab, keyHandler, scenarios, historyVars, presets>>

\* the Reset button of the calculator tab
ClickReset ==
  /\ Handled
  /\ activeTab = "calculator"
  /\ handleReset

\* handleKeyDown on Escape, outside an input field
PressEscape ==
  /\ Handled
  /\ handleReset

\* the render that follows a step of ComparisonMode
Compared(depsSet) ==
  invoked' = RenderCalls(activeTab, depsSet, scenarios', form.startDate, form.endDate,
                         form.tiers)

\* ComparisonMode.addScenario
addScenario ==
  /\ Handled
  /\ activeTab = "comparison"
  /\ scenarios' = IF Len(scenarios) >= MaxScenarios THEN scenarios
                  ELSE Append(scenarios,
                              AddedScenario(form.interestType, form.interestApply))
  /\ Compared(Len(scenarios) < MaxScenarios)
  /\ UNCHANGED <<form, result, errors, activeTab, keyHandler, historyVars, presets>>

\* ComparisonMode.removeScenario(id)
removeScenario ==
  \E index \in 1..Len(scenarios) :
    /\ Handled
    /\ activeTab = "comparison"
    /\ scenarios' = IF Len(scenarios) <= 1 THEN scenarios
                    ELSE RemoveAt(scenarios, index)
    /\ Compared(Len(scenarios) > 1)
    /\ UNCHANGED <<form, result, errors, activeTab, keyHandler, historyVars, presets>>

\* ComparisonMode.updateScenario(id, field, value)
updateScenario ==
  \E index \in 1..Len(scenarios) :
    /\ Handled
    /\ activeTab = "comparison"
    /\ \/ \E value \in ScenarioAmountInputs :
            /\ parseInputValue(value) # scenarios[index].depositAmount
            /\ scenarios' =
                 [scenarios EXCEPT ![index].depositAmount = parseInputValue(value)]
       \/ \E value \in InterestTypes :
            /\ value # scenarios[index].interestType
            /\ scenarios' = [scenarios EXCEPT ![index].interestType = value]
       \/ \E value \in ApplyInputs :
            /\ value # scenarios[index].interestApply
            /\ scenarios' = [scenarios EXCEPT ![index].interestApply = value]
    /\ Compared(TRUE)
    /\ UNCHANGED <<form, result, errors, activeTab, keyHandler, historyVars, presets>>

\* handleRestoreFromHistory(entry)
handleRestoreFromHistory(entry) ==
  /\ form' = Form(formatNumber(entry.depositAmount), entry.startDate, entry.endDate,
                  entry.tiers, entry.interestType, entry.interestApply)
  /\ result' = entry.result
  /\ errors' = {}
  /\ Rendered(TRUE)
  /\ UNCHANGED <<activeTab, keyHandler, scenarios, historyVars, presets>>

\* CalculationHistory.handleRestore(entry): the Restore button of an entry
handleRestore ==
  \E index \in 1..Len(panel) :
    /\ Handled
    /\ handleRestoreFromHistory(panel[index])

\* removeFromHistory(entry.id), called by the panel: the entries of the
\* panel's own list that have another id, saved and set
removeFromHistory ==
  \E index \in 1..Len(panel) :
    /\ Handled
    /\ panel' = RemoveAt(panel, index)
    /\ storage' = panel'
    /\ invoked' = {}
    /\ UNCHANGED <<form, result, errors, activeTab, keyHandler, scenarios, history, presets>>

\* clearHistory, called by the panel, which shows the button when its list
\* is not empty
clearHistory ==
  /\ Handled
  /\ Len(panel) > 0
  /\ panel' = <<>>
  /\ storage' = <<>>
  /\ invoked' = {}
  /\ UNCHANGED <<form, result, errors, activeTab, keyHandler, scenarios, history, presets>>

\* the preset PresetManager.handleSavePreset makes of its props, with a
\* name typed in the dialog; id, name and createdAt are left out
Preset(f) ==
  [depositAmount |-> parseInputValue(f.depositAmount), interestType |-> f.interestType,
   interestApply |-> f.interestApply, tiers |-> f.tiers]

\* PresetManager.handleSavePreset
handleSavePreset ==
  /\ Handled
  /\ Len(presets) < MaxPresets
  /\ presets' = Append(presets, Preset(form))
  /\ invoked' = {}
  /\ UNCHANGED <<form, result, errors, activeTab, keyHandler, scenarios, historyVars>>

\* InterestCalculator.handleLoadPreset(preset), called by the Load Preset
\* menu; formatNumber throws on an amount that is not a decimal literal,
\* before any state is set
handleLoadPreset ==
  \E index \in 1..Len(presets) :
    LET preset == presets[index]
    IN  /\ Handled
        /\ IF Truthy(preset.depositAmount) /\ DecimalThrows(preset.depositAmount)
           THEN /\ invoked' = {}
                /\ UNCHANGED <<form, result>>
           ELSE /\ form' = [form EXCEPT
                              !.depositAmount = IF Truthy(preset.depositAmount)
                                                THEN formatNumber(preset.depositAmount)
                                                ELSE Blank,
                              !.interestType = preset.interestType,
                              !.interestApply = preset.interestApply,
                              !.tiers = preset.tiers]
                /\ result' = NoResult
                /\ Rendered(TRUE)
        /\ UNCHANGED <<errors, activeTab, keyHandler, scenarios, historyVars, presets>>

\* PresetManager.handleDeletePreset(preset.id)
handleDeletePreset ==
  \E index \in 1..Len(presets) :
    /\ Handled
    /\ presets' = RemoveAt(presets, index)
    /\ invoked' = {}
    /\ UNCHANGED <<form, result, errors, activeTab, keyHandler, scenarios, historyVars>>

UINext ==
  \/ AmountChange
  \/ AmountBlur
  \/ StartDateChange
  \/ EndDateChange
  \/ SetInterestType
  \/ SetInterestApply
  \/ updateTier
  \/ addTier
  \/ removeTier
  \/ SetActiveTab
  \/ ClickCalculate
  \/ PressCtrlEnter
  \/ ClickReset
  \/ PressEscape
  \/ addScenario
  \/ removeScenario
  \/ updateScenario
  \/ handleRestore
  \/ removeFromHistory
  \/ clearHistory
  \/ handleSavePreset
  \/ handleLoadPreset
  \/ handleDeletePreset

UISpec == UIInit /\ [][UINext]_vars

----------------------------------------------------------------------------
(* The page of a returning user: an earlier visit left one calculation in   *)
(* localStorage, and in this visit the user has typed an amount, looked at  *)
(* the comparison tab and come back, so that handleKeyDown was made again   *)
(* from a render that holds a complete form.                                *)

TypedForm ==
  Form(Txt(100000000), Today, OneYearLater(Today), defaultTiers, "simple", "daily")

ReplayInit ==
  /\ tz \in TimeZones
  /\ args = NoArgs
  /\ res = NoResult
  /\ fnArgs = NoCall
  /\ alloc = NoAlloc
  /\ simple = NoValue
  /\ compound = NoValue
  /\ counted = NoValue
  /\ loop = NoLoop
  /\ form = TypedForm
  /\ result = NoResult
  /\ errors = {}
  /\ activeTab = "calculator"
  /\ HistoryInit(<<PriorEntry(tz)>>)
  /\ keyHandler = [activeTab |-> "calculator", form |-> TypedForm, history |-> history]
  /\ scenarios = <<>>
  /\ invoked = {}
  /\ events = 0
  /\ presets = <<>>

ReplaySpec == ReplayInit /\ [][UINext]_vars

----------------------------------------------------------------------------
(* The two useCalculationHistory hooks of the page, driven directly: the    *)
(* calculator's hook adds entries, the panel's hook removes and clears.     *)
(* The entries are numbered in the order in which they were added; an       *)
(* earlier visit may have left the first ones.                              *)

Numbered(n) == [i \in 1..n |-> n + 1 - i]

HistoryHookInit ==
  /\ tz \in TimeZones
  /\ args = NoArgs
  /\ res = NoResult
  /\ fnArgs = NoCall
  /\ alloc = NoAlloc
  /\ simple = NoValue
  /\ compound = NoValue
  /\ counted = NoValue
  /\ loop = NoLoop
  /\ FormInit
  /\ \E n \in 0..2 : HistoryInit(Numbered(n))

\* addToHistory(entry), called by the calculator with its next entry
Added ==
  LET entry == IF history = <<>> THEN 1 ELSE history[1] + 1
  IN  /\ entry <= MaxAdded
      /\ history' = addToHistory(history, entry)
      /\ storage' = history'
      /\ UNCHANGED <<tz, engineVars, pageVars, panel, presets>>

HistoryNext == Added \/ removeFromHistory \/ clearHistory

HistorySpec == HistoryHookInit /\ [][HistoryNext]_vars

----------------------------------------------------------------------------
(* Vocabulary of the properties *)

Last(seq) == seq[Len(seq)]

RECURSIVE SumDays(_)
SumDays(breakdown) ==
  IF breakdown = <<>> THEN 0 ELSE Head(breakdown).days + SumDays(Tail(breakdown))

RECURSIVE SumAmounts(_)
SumAmounts(allocations) ==
  IF allocations = <<>> THEN 0
  ELSE Head(allocations).amount + SumAmounts(Tail(allocations))

\* the date is the last day of its calendar month
IsLastDayOfMonth(date) == Civil(DayNum(date.y, date.m, date.d) + 1).d = 1

\* the order of the calendar
NotAfter(d1, d2) == DayNum(d1.y, d1.m, d1.d) <= DayNum(d2.y, d2.m, d2.d)

\* the first day of the calendar month after the month [y, m]
FirstDayOfNextMonth(month) ==
  IF month.m = 12 THEN Date(month.y + 1, 1, 1) ELSE Date(month.y, month.m + 1, 1)

\* the amount lies in the band of the tier
InBand(x, tier) ==
  /\ Decimal(tier.min) <= x
  /\ Truthy(tier.max) => x <= Decimal(tier.max)

\* the amounts at which the number of bands holding an amount can change
CriticalAmounts(tiers) ==
  {0} \cup {Decimal(tiers[i].min) : i \in DOMAIN tiers}
      \cup {Decimal(tiers[i].min) - 1 : i \in {j \in DOMAIN tiers : Decimal(tiers[j].min) > 0}}
      \cup {Decimal(tiers[i].max) : i \in {j \in DOMAIN tiers : Truthy(tiers[j].max)}}
      \cup {Decimal(tiers[i].max) + 1 : i \in {j \in DOMAIN tiers : Truthy(tiers[j].max)}}

\* the bands are disjoint and together cover every amount >= 0
CoversDisjoint(tiers) ==
  /\ \E i \in DOMAIN tiers : ~Truthy(tiers[i].max)
  /\ \A x \in CriticalAmounts(tiers) :
       Cardinality({i \in DOMAIN tiers : InBand(x, tiers[i])}) = 1

\* the interest capitalised so far: the cumulative of the last applied entry
RECURSIVE Capitalized(_)
Capitalized(breakdown) ==
  IF breakdown = <<>> THEN 0
  ELSE IF Last(breakdown).applied THEN Last(breakdown).cumulative
  ELSE Capitalized(SubSeq(breakdown, 1, Len(breakdown) - 1))

Returned == res.status = "returned"

----------------------------------------------------------------------------
(* Properties of the engine *)

\* C1: the days of the breakdown entries sum to totalDays, the inclusive day
\* count of startDate..endDate.
C1_DaysSumToTotalDays ==
  Returned => SumDays(res.breakdown) = res.totalDays

\* C2, as stated: under the monthly cadence, when endDate is the last day of
\* a calendar month the entry of that final month is applied.
C2_FinalMonthApplied ==
  (Returned /\ args.applyType = "monthly" /\ IsLastDayOfMonth(args.endDate))
    => Last(res.breakdown).applied

\* C2, amended: under the monthly cadence, when endDate is the last day of a
\* calendar month the entry of that final month is not applied; its interest
\* stays accrued.
C2_FinalMonthNotApplied ==
  (Returned /\ args.applyType = "monthly" /\ IsLastDayOfMonth(args.endDate))
    => /\ ~Last(res.breakdown).applied
       /\ res.accruedInterest = Last(res.breakdown).interest

C2_Witness ==
  /\ Returned /\ args.applyType = "monthly" /\ IsLastDayOfMonth(args.endDate)
  /\ Len(res.breakdown) >= 2
  /\ res.breakdown[Len(res.breakdown) - 1].applied
  /\ ~Last(res.breakdown).applied
  /\ res.accruedInterest > 0

\* C3: for a principal >= 0 and tiers whose bands are disjoint and cover
\* every amount >= 0, the allocations of splitAmountByTiers sum to the
\* principal.
C3_SplitSumsToPrincipal ==
  (fnArgs.fn = "split" /\ alloc.status = "returned"
     /\ Decimal(fnArgs.amount) >= 0 /\ CoversDisjoint(fnArgs.tiers))
    => SumAmounts(alloc.result) = Decimal(fnArgs.amount)

C3_Witness ==
  /\ fnArgs.fn = "split" /\ alloc.status = "returned"
  /\ CoversDisjoint(fnArgs.tiers)
  /\ Len(fnArgs.tiers) = 3
  /\ Decimal(fnArgs.tiers[1].min) > Decimal(fnArgs.tiers[2].min)
  /\ Len(alloc.result) = 3
  /\ SumAmounts(alloc.result) = Decimal(fnArgs.amount)

C5_CompoundExceedsSimple ==
  (fnArgs.fn = "interest" /\ simple.status = "returned" /\ compound.status = "returned"
     /\ fnArgs.days = DaysPerYear /\ fnArgs.principal > 0 /\ Decimal(fnArgs.rate) > 0)
    => compound.value > simple.value

\* C5, amended: for P > 0 and R > 0 compound interest over 365 days equals
\* simple interest over 365 days (one whole year compounds once).
C5_CompoundEqualsSimple ==
  (fnArgs.fn = "interest" /\ simple.status = "returned" /\ compound.status = "returned"
     /\ fnArgs.days = DaysPerYear /\ fnArgs.principal > 0 /\ Decimal(fnArgs.rate) > 0)
    => compound.value = simple.value

C5_Witness ==
  /\ fnArgs.fn = "interest" /\ simple.status = "returned" /\ compound.status = "returned"
  /\ fnArgs.days = DaysPerYear /\ fnArgs.principal > 0 /\ Decimal(fnArgs.rate) > 0
  /\ simple.value > 0
  /\ compound.value = simple.value

\* what the engine expects of its caller: a deposit that is a positive decimal
\* literal, startDate strictly before endDate, and a non-empty tier list in
\* which every tier has a non-empty min and a non-empty rate
ValidCall(call) ==
  /\ ~DecimalThrows(call.depositAmount)
  /\ Decimal(call.depositAmount) > 0
  /\ call.startDate # NoDate
  /\ call.endDate # NoDate
  /\ ParseDate(call.startDate) < ParseDate(call.endDate)
  /\ Len(call.tiers) > 0
  /\ \A i \in 1..Len(call.tiers) :
       Truthy(call.tiers[i].min) /\ Truthy(call.tiers[i].rate)

\* C6: every call of calculateInterest made by the page (the Calculate
\* button, the Ctrl/Cmd+Enter shortcut, comparison mode) has a deposit that is
\* a positive parseable decimal, startDate strictly before endDate, and a
\* non-empty tier list whose tiers all have a non-empty min and rate
C6_CallsAreValidated ==
  \A call \in invoked : ValidCall(call)

\* C7: under the monthly cadence an entry is applied exactly when the first
\* day of the calendar month after its month is <= endDate.
C7_MonthlyAppliedRule ==
  (Returned /\ args.applyType = "monthly") =>
    \A i \in DOMAIN res.breakdown :
      res.breakdown[i].applied
        <=> NotAfter(FirstDayOfNextMonth(res.breakdown[i].date), args.endDate)

\* C8: under the annual cadence an entry is applied only when its month is
\* December, and over 1 January .. 31 December of one year exactly one entry
\* is applied, the December one.
C8_AnnualAppliedRule ==
  (Returned /\ args.applyType = "annually") =>
    /\ \A i \in DOMAIN res.breakdown :
         res.breakdown[i].applied => res.breakdown[i].date.m = 12
    /\ (args.startDate.m = 1 /\ args.startDate.d = 1
          /\ args.endDate.m = 12 /\ args.endDate.d = 31
          /\ args.startDate.y = args.endDate.y)
         => /\ Cardinality({i \in DOMAIN res.breakdown : res.breakdown[i].applied}) = 1
            /\ \A i \in DOMAIN res.breakdown :
                 res.breakdown[i].applied
                   => res.breakdown[i].date = [y |-> args.endDate.y, m |-> 12]

\* C9: under the biannual cadence an entry is applied exactly when its month
\* is June or December.
C9_BiannualAppliedRule ==
  (Returned /\ args.applyType = "biannually") =>
    \A i \in DOMAIN res.breakdown :
      res.breakdown[i].applied <=> res.breakdown[i].date.m \in {6, 12}

C9_Witness ==
  /\ Returned /\ args.applyType = "biannually"
  /\ \E i \in DOMAIN res.breakdown :
       res.breakdown[i].date.m = 6 /\ res.breakdown[i].applied
  /\ \E i \in DOMAIN res.breakdown :
       res.breakdown[i].date.m = 12 /\ res.breakdown[i].applied
  /\ \E i \in DOMAIN res.breakdown : ~res.breakdown[i].applied

C11_TierResultsOfDeposit ==
  Returned =>
    LET split == splitAmountByTiers(args.depositAmount, args.tiers).result
        totalDays == calculateDays(args.startDate, args.endDate, tz)
    IN  /\ Len(res.tierResults) = Len(split)
        /\ \A i \in 1..Len(split) :
             /\ res.tierResults[i].amount = split[i].amount
             /\ res.tierResults[i].rate = split[i].rate
             /\ res.tierResults[i].interest =
                  TierInterest(args.interestType, split[i].amount, split[i].rate,
                               totalDays)
        /\ \A applyType \in ApplyTypes :
             calculateInterest([args EXCEPT !.applyType = applyType], tz).tierResults
               = res.tierResults

C11_Witness ==
  /\ Returned
  /\ args.applyType = "daily"
  /\ res.finalAmount > Decimal(args.depositAmount)
  /\ Len(res.tierResults) >= 2
  /\ res.tierResults[1].interest > 0
  /\ SumAmounts(res.tierResults) = Decimal(args.depositAmount)
  /\ SumAmounts(splitAmountByTiers(Txt(res.finalAmount), args.tiers).result)
       > Decimal(args.depositAmount)

\* the calendar months that intersect [startDate, endDate], in order
MonthOfIndex(index) == [y |-> index \div 12, m |-> (index % 12) + 1]
MonthsOfRange(startDate, endDate) ==
  LET first == startDate.y * 12 + startDate.m - 1
      last == endDate.y * 12 + endDate.m - 1
  IN  [i \in 1..(last - first + 1) |-> MonthOfIndex(first + i - 1)]

\* C12: for endDate >= startDate the breakdown has exactly one entry for each
\* calendar month that intersects [startDate, endDate], in chronological
\* order.
C12_OneEntryPerMonth ==
  (Returned /\ NotAfter(args.startDate, args.endDate))
    => [i \in 1..Len(res.breakdown) |-> res.breakdown[i].date]
         = MonthsOfRange(args.startDate, args.endDate)

\* C14: splitAmountByTiers returns its allocations in ascending order of tier
\* min whatever the order of the input tiers, and every allocation it returns
\* has an amount > 0.
C14_AscendingPositive ==
  (fnArgs.fn = "split" /\ alloc.status = "returned")
    => /\ \A i \in 1..(Len(alloc.result) - 1) :
            Decimal(alloc.result[i].min) <= Decimal(alloc.result[i + 1].min)
       /\ \A i \in 1..Len(alloc.result) : alloc.result[i].amount > 0

C14_Witness ==
  /\ fnArgs.fn = "split" /\ alloc.status = "returned"
  /\ Len(fnArgs.tiers) = 3
  /\ Decimal(fnArgs.tiers[1].min) > Decimal(fnArgs.tiers[2].min)
  /\ Len(alloc.result) = 2
  /\ Decimal(alloc.result[1].min) < Decimal(alloc.result[2].min)

\* C15: for a principal of 0 or a negative principal splitAmountByTiers
\* returns an empty allocation sequence, whatever the tier configuration.
C15_NothingToSplit ==
  (fnArgs.fn = "split" /\ alloc.status # "none" /\ Decimal(fnArgs.amount) <= 0)
    => (alloc.status = "returned" /\ alloc.result = <<>>)

\* the number of calendar days from startDate to endDate, both inclusive
InclusiveDays(startDate, endDate) ==
  DayNum(endDate.y, endDate.m, endDate.d)
    - DayNum(startDate.y, startDate.m, startDate.d) + 1

\* C16: a call of calculateDays with start <= end returns the number of
\* calendar days from start to end, both inclusive: (end - start in days) + 1,
\* so 1 for a single day and the length of the month for a whole month.
C16_InclusiveDayCount ==
  (/\ fnArgs.fn = "days"
   /\ counted.status = "returned"
   /\ NotAfter(fnArgs.startDate, fnArgs.endDate))
  => counted.value = InclusiveDays(fnArgs.startDate, fnArgs.endDate)

\* a tier all of whose fields can be read as numbers (max may be left empty)
WellFormed(tier) ==
  /\ ~DecimalThrows(tier.min)
  /\ ~DecimalThrows(tier.rate)
  /\ Truthy(tier.max) => ~DecimalThrows(tier.max)

\* C17: a tier with an empty or non-numeric min or rate is skipped by the
\* engine: calculateInterest raises no error and returns what it returns for
\* the same request without the malformed tiers.
C17_MalformedTierSkipped ==
  res.status # "none" =>
    res = calculateInterest([args EXCEPT !.tiers = SelectSeq(args.tiers, WellFormed)], tz)

\* C18: calculateSimpleInterest and calculateCompoundInterest return zero,
\* and raise no error, when the annual rate they are given is empty or is
\* not a number.
C18_ZeroOnUnparsable ==
  (fnArgs.fn = "interest" /\ DecimalThrows(fnArgs.rate)) =>
    /\ simple.status # "none" => simple = [status |-> "returned", value |-> 0]
    /\ compound.status # "none" => compound = [status |-> "returned", value |-> 0]

\* the request a history entry records, as handleCalculate passed it to
\* calculateInterest
EntryRequest(entry) ==
  [depositAmount |-> entry.depositAmount, startDate |-> entry.startDate,
   endDate |-> entry.endDate, tiers |-> entry.tiers,
   interestType |-> entry.interestType, applyType |-> entry.interestApply]

\* the form holds the request of the entry, and the page its result
Replays(f, held, entry) ==
  /\ FormArgs(f) = EntryRequest(entry)
  /\ held = entry.result

\* C19: restoring a history entry puts its request back in the form (the
\* amount compared after the commas are stripped), and a calculation made
\* from the calculator tab while the form still holds that request leaves
\* the result the entry stores.
C19_RestoreReplays ==
  [][/\ handleRestore =>
          \E index \in 1..Len(panel) : Replays(form', result', panel[index])
     /\ \A index \in 1..Len(panel) :
          (/\ Replays(form, result, panel[index])
           /\ activeTab = "calculator"
           /\ invoked' # {})
          => result' = panel[index].result]_vars

\* C20: the history the calculator saves holds the most recent calculations,
\* newest first, up to 50 of them: after n additions all n entries when
\* n <= 50, and the newest 50 after that.
C20_KeepsFifty ==
  history # <<>> =>
    history = [i \in 1..MinOf(history[1], 50) |-> history[1] + 1 - i]

\* C21: on the calculator tab Ctrl+Enter does what the Calculate button
\* does, on the form held when the key is pressed: it sets the errors of that
\* form and, when there is none, calls calculateInterest with it; on the
\* comparison tab it calculates nothing.
C21_CtrlEnterAsClick ==
  [][PressCtrlEnter =>
       IF activeTab = "calculator"
       THEN /\ errors' = validate(form)
            /\ invoked' = IF validate(form) = {} THEN {FormArgs(form)} ELSE {}
       ELSE /\ invoked' = {}
            /\ result' = result
            /\ errors' = errors]_vars

\* the calendar days of the segment start..end of a calculateDays call
DaysOfSegment(start, end) ==
  IF start > end THEN 0 ELSE ((end - start) \div HoursPerDay) + 1

\* the calendar months of the range startDate..endDate
MonthCount(startDate, endDate) ==
  IF NotAfter(startDate, endDate) THEN Len(MonthsOfRange(startDate, endDate)) ELSE 0

\* C22: calculateInterest terminates for every pair of dates; its month loop
\* runs at most once per calendar month of the range and each day-count loop
\* at most once per day of its segment.
C22_BoundedLoops ==
  /\ <>(loop.pc = "done")
  /\ [](Len(loop.monthlyData) <= MonthCount(args.startDate, args.endDate))
  /\ [](loop.pc \in {"totalDays", "daysInMonth"}
          => loop.totalDays <= DaysOfSegment(loop.start, loop.end))

\* the ledger entry before entry i; before the first entry the balance is
\* the deposit and nothing is accrued
EntryBefore(i) ==
  IF i = 1
  THEN [balance |-> Decimal(args.depositAmount), accrued |-> 0]
  ELSE [balance |-> res.breakdown[i - 1].balance,
        accrued |-> res.breakdown[i - 1].accrued]

\* an applied entry raises the balance by what was accrued plus its own
\* interest and records accrued = 0; a non-applied entry keeps the balance
\* and adds its interest to accrued
LedgerStep(i) ==
  LET entry == res.breakdown[i]
      before == EntryBefore(i)
  IN  IF entry.applied
      THEN /\ entry.balance = before.balance + before.accrued + entry.interest
           /\ entry.accrued = 0
      ELSE /\ entry.balance = before.balance
           /\ entry.accrued = before.accrued + entry.interest

FailingFields(f) ==
  LET amount == parseInputValue(f.depositAmount)
  IN  (IF amount.kind = "num" /\ amount.val > 0 THEN {} ELSE {"depositAmount"})
      \cup (IF f.startDate = NoDate THEN {"startDate"} ELSE {})
      \cup (IF \/ f.endDate = NoDate
               \/ (f.startDate # NoDate /\ NotAfter(f.endDate, f.startDate))
            THEN {"endDate"} ELSE {})
      \cup (IF \/ f.tiers = <<>>
               \/ \E i \in 1..Len(f.tiers) :
                    \/ f.tiers[i].min = Blank
                    \/ f.tiers[i].rate = Blank
                    \/ (f.tiers[i].rate.kind = "num" /\ f.tiers[i].rate.val < 0)
            THEN {"tiers"} ELSE {})

\* handleCalculate runs, by the button or by the shortcut
CalculateRuns ==
  \/ ClickCalculate
  \/ PressCtrlEnter /\ keyHandler.activeTab = "calculator"

\* C24: when validation fails in handleCalculate, calculateInterest is not
\* invoked, the held result and the calculation history stay as they are, and
\* the errors record gets an entry for each failing field of the form.
C24_FailedValidation ==
  [][(CalculateRuns /\ errors' # {}) =>
       /\ invoked' = {}
       /\ result' = result
       /\ history' = history
       /\ storage' = storage
       /\ errors' = FailingFields(form)]_vars

\* C25: a call of calculateInterest or of splitAmountByTiers leaves the
\* caller's tiers array with the same elements in the same order, also when
\* the tiers are not given in the order of their min.
C25_TiersUnchanged ==
  [][/\ Calculate => args'.tiers = args.tiers
     /\ Split => fnArgs'.tiers = fnArgs.tiers]_vars

\* calculateInterest returned for tiers given out of order: the tier results
\* are in the order of min and the caller's array is in the order given
C25_Witness ==
  /\ Returned
  /\ args.tiers # SortTiers(args.tiers)
  /\ Len(res.tierResults) >= 2
  /\ \A i \in 1..(Len(res.tierResults) - 1) :
       Decimal(res.tierResults[i].min) < Decimal(res.tierResults[i + 1].min)

\* the sum of the interest fields of the first i ledger entries
RECURSIVE InterestUpTo(_, _)
InterestUpTo(breakdown, i) ==
  IF i = 0 THEN 0 ELSE InterestUpTo(breakdown, i - 1) + breakdown[i].interest

Entries(list) == {list[i] : i \in 1..Len(list)}

\* C27: entries deleted through the panel stay deleted: an addToHistory of
\* the calculator adds its new entry to the persisted history and writes
\* back no entry that clearHistory or removeFromHistory took out of it.
C27_DeletedStayDeleted ==
  [][Added => Entries(storage') \subseteq (Entries(storage) \cup {storage'[1]})]_vars

\* C28: a result on screen was computed from the deposit amount, dates,
\* tiers, interest type and apply type that the form holds: the form is valid
\* and the result is what calculateInterest returns for it.
C28_ResultOfCurrentForm ==
  (activeTab = "calculator" /\ result # NoResult) =>
    /\ validate(form) = {}
    /\ result = calculateInterest(FormArgs(form), tz)

\* C30: in every state of the calculator page the tier list holds at least
\* one tier, and so does every tier list that a preset load or a history
\* restore can install.
C30_TiersNeverEmpty ==
  /\ Len(form.tiers) >= 1
  /\ \A i \in 1..Len(presets) : Len(presets[i].tiers) >= 1
  /\ \A i \in 1..Len(panel) : Len(panel[i].tiers) >= 1

\* the list was brought down to one tier, and an event came after that
C30_Witness ==
  /\ Len(form.tiers) = 1
  /\ events >= 3

\* C29: for the inputs of a returned calculation the day-by-day view shows
\* the months of the ledger, capitalizes a month exactly when the ledger entry
\* of that month is applied, and ends the month with that entry's balance.
C29_TableAgreesWithLedger ==
  Returned =>
    LET table == DailyBreakdownTable(args, tz)
    IN  table.shown =>
          /\ ~table.threw
          /\ Len(table.monthlyData) = Len(res.breakdown)
          /\ \A i \in 1..Len(res.breakdown) :
               /\ table.monthlyData[i].applied = res.breakdown[i].applied
               /\ table.monthlyData[i].endBalance = res.breakdown[i].balance

=============================================================================
